---- MODULE Spec2Model ----
(***************************************************************************)
(* Model of the Upbit order-book collector                                 *)
(* (src/fetcher/fetch_order_book_upbit.py): the per-symbol store throttle  *)
(* of UpbitOrderBookStreamer._handle_message, the transactional writer     *)
(* store_orderbook_snapshot / get_or_create_symbol_id on a psycopg2        *)
(* connection with autocommit off, and the three PostgreSQL tables.        *)
(*                                                                         *)
(* Time is counted in whole seconds and time.time() never runs backwards.  *)
(* A symbol code is a sequence of characters.  A dict is a function to its *)
(* values, NoEntry where the key is absent.                                *)
(***************************************************************************)
EXTENDS Integers, Sequences, FiniteSets, TLC

\* ---------------------------------------------------------------- bounds
MaxMsgs     == 2   \* messages taken from the websocket in one run
MaxTime     == 2   \* time.time() and --store-interval are at most MaxTime
MaxLevels   == 2   \* orderbook_units has at most MaxLevels entries
NCallers    == 3   \* connections racing in get_or_create_symbol_id
MaxCodeLen  == 4   \* a symbol code given to get_or_create_symbol_id alone
                   \* has at most MaxCodeLen characters

\* ------------------------------------------------------------- constants
PrintInterval == 1 \* seconds between two spread prints of one symbol
NoEntry       == -1 \* a key that is not in the dict / a value not yet set
RetryDelay    == 3 \* seconds start() sleeps after _consumer_loop raised

Times     == 0..MaxTime
Codes     == { <<"U", "-", "B">>, <<"B">> }
NoCode    == << >>
\* the feed's timestamp of an update
TimestampOf(code) == 7 + Len(code)
DefaultCode == <<"U", "-", "B">>

\* orderbook_units of a message: the first n rungs of a book whose rungs
\* all differ, so that the order of the rows can be told.
Unit(k)   == [ask_price |-> 10 + k, bid_price |-> 10 - k]
Units(n)  == [k \in 1..n |-> Unit(k)]

\* The raw websocket messages: unparseable bytes, a JSON message of another
\* type, an orderbook message without "code", and orderbook messages.
Garbage   == [json |-> FALSE, type |-> "", code |-> NoCode, timestamp |-> 0,
              orderbook_units |-> << >>]
Ticker    == [json |-> TRUE, type |-> "ticker", code |-> DefaultCode,
              timestamp |-> 0, orderbook_units |-> << >>]
Codeless  == [json |-> TRUE, type |-> "orderbook", code |-> NoCode,
              timestamp |-> 0, orderbook_units |-> << >>]
Orderbooks == { [json |-> TRUE, type |-> "orderbook", code |-> c,
                 timestamp |-> TimestampOf(c), orderbook_units |-> Units(n)] :
                c \in Codes, n \in 0..MaxLevels }
Messages  == {Garbage, Ticker, Codeless} \cup Orderbooks
NoMsg     == Garbage
\* what the feed sends to the supervised streamer: unparseable bytes, an
\* orderbook message without "code", a message of another type and the
\* one-rung book of a code that upbit_symbols does not hold
FeedMessages == { Garbage, Codeless, Ticker,
                  [json |-> TRUE, type |-> "orderbook", code |-> <<"B">>,
                   timestamp |-> TimestampOf(<<"B">>),
                   orderbook_units |-> Units(1)] }

\* the lists --symbols, symbols.txt or the database can give
SymbolLists == { <<DefaultCode>>, <<DefaultCode, <<"B">>>> }

Conns     == 0..NCallers   \* 0 is the streamer's self.conn, the others race
Streamer  == 0
Callers   == 1..NCallers

VARIABLES
  store_interval,   \* self.store_interval
  print_spread,     \* self.print_spread
  _last_store,      \* self._last_store : code -> time of the last DB write
  _last_print,      \* self._last_print : code -> time of the last print
  pc,               \* where the streamer is in _handle_message / the store
  cur,              \* the message in hand and the locals of its handling
  nmsgs,            \* messages taken from the websocket so far
  clock,            \* the latest value time.time() returned
  upbit_symbols,            \* committed rows of upbit_symbols
  upbit_orderbook_snapshots,\* committed rows of upbit_orderbook_snapshots
  upbit_order_book_data,    \* committed rows of upbit_order_book_data
  symbol_seq,       \* next value of the SERIAL upbit_symbols.symbol_id
  snapshot_seq,     \* next value of the SERIAL snapshot_id
  tx,               \* per connection: the rows of its open transaction
  rpc,              \* per racing caller: its place in get_or_create_symbol_id
  rcur,             \* per racing caller: its code and the id it got
  arrival,          \* history: snapshot_id -> arrival time of its update
  failed_ids,       \* history: snapshot ids handed out by a store that failed
  storedAt,         \* history: code -> arrival time of its last stored update
  admittedAt,       \* history: code -> arrival time of its last admitted update
  attempts,         \* history: message number -> store calls dispatched for it
  verdict,          \* history: how the handling of the last message ended
  symbols,          \* self.symbols
  _stop,            \* self._stop.is_set()
  conn,             \* self.conn: "open", "lost" (the server is gone), "closed"
  closer,           \* the to_thread(self.conn.close) of stop()
  ws,               \* the websocket of _consumer_loop: "open" or "closed"
  sent,             \* what was sent on the websocket since it was opened
  first_sub,        \* history: the codes the first subscription named
  last_end,         \* history: how the last _consumer_loop ended
  waited,           \* history: seconds slept since the last _consumer_loop
  sh_last_store,    \* the _last_store of the same run without --print-spread
  sh_snapshots,     \* the snapshots the same run without --print-spread stores
  mpc,              \* where main_async is
  args_symbols,     \* args.symbols: whether it is a non-empty string, and its
                    \* pieces between commas, each stripped
  args_store_interval, \* args.store_interval, the value of --store-interval
  file_symbols,     \* what read_symbols_from_file returns
  tables,           \* whether the three tables exist: "missing", "present"
  db_connects,      \* history: calls of connect_db so far
  exit_status       \* the status of sys.exit, NoEntry while running

mainvars == <<mpc, args_symbols, args_store_interval, file_symbols, tables,
              db_connects, exit_status>>
cfgvars  == <<store_interval, print_spread, symbols, mainvars>>
supvars  == <<_stop, conn, closer, ws, sent, first_sub, last_end, waited>>
mapvars  == <<_last_store, _last_print>>
dbvars   == <<upbit_symbols, upbit_orderbook_snapshots, upbit_order_book_data>>
seqvars  == <<symbol_seq, snapshot_seq>>
racevars == <<rpc, rcur>>
histvars == <<arrival, failed_ids, storedAt, admittedAt, attempts, verdict>>
shvars   == <<sh_last_store, sh_snapshots>>
vars == <<store_interval, print_spread, _last_store, _last_print, pc, cur,
          nmsgs, clock, upbit_symbols, upbit_orderbook_snapshots,
          upbit_order_book_data, symbol_seq, snapshot_seq, tx, rpc, rcur,
          arrival, failed_ids, storedAt, admittedAt, attempts, verdict,
          symbols,
          _stop, conn, closer, ws, sent, first_sub, last_end, waited,
          sh_last_store, sh_snapshots, mpc, args_symbols,
          args_store_interval, file_symbols,
          tables, db_connects, exit_status>>

\* ---------------------------------------------------------------- helpers
\* Variant of Max: the second value whatever the first, the store interval
\* as it was given.
MaxKeepsGiven(a, b) == b

\* max(a, b)
Max(a, b) == IF a >= b THEN a ELSE b

\* dict.get(key, 0)
Get(d, k) == IF d[k] = NoEntry THEN 0 ELSE d[k]

\* index of the first "-" of a code, 0 if there is none
FirstDash(code) ==
  IF \E i \in 1..Len(code) : code[i] = "-"
  THEN CHOOSE i \in 1..Len(code) :
         code[i] = "-" /\ \A j \in 1..(i - 1) : code[j] # "-"
  ELSE 0

\* quote, base = symbol_code.split("-", 1), else base, quote = code, "KRW"
QuoteOf(code) ==
  IF FirstDash(code) # 0 THEN SubSeq(code, 1, FirstDash(code) - 1)
  ELSE <<"K", "R", "W">>

\* Variant of BaseOf: symbol_code.split("-") without the limit of one split,
\* the base being the piece between the first "-" and the next.
BaseOfSecondPiece(code) ==
  IF FirstDash(code) # 0
  THEN LET rest == SubSeq(code, FirstDash(code) + 1, Len(code))
       IN  IF FirstDash(rest) # 0 THEN SubSeq(rest, 1, FirstDash(rest) - 1)
           ELSE rest
  ELSE code

\* the base of symbol_code.split("-", 1): all that follows the first "-"
BaseOf(code) ==
  IF FirstDash(code) # 0 THEN SubSeq(code, FirstDash(code) + 1, Len(code))
  ELSE code

\* the characters of the codes, in the order PostgreSQL sorts them
Alphabet == <<"-", "B", "K", "R", "U", "W">>
Rank(ch) == CHOOSE i \in 1..Len(Alphabet) : Alphabet[i] = ch

\* a < b for two codes, as ORDER BY symbol_code compares them
RECURSIVE CodeLess(_, _)
CodeLess(a, b) ==
  IF b = << >> THEN FALSE
  ELSE IF a = << >> THEN TRUE
  ELSE IF Head(a) # Head(b) THEN Rank(Head(a)) < Rank(Head(b))
  ELSE CodeLess(Tail(a), Tail(b))

\* the codes of a set as the list in ascending order
RECURSIVE Sorted(_)
Sorted(S) ==
  IF S = {} THEN << >>
  ELSE LET least == CHOOSE x \in S : \A y \in S \ {x} : CodeLess(x, y)
       IN  <<least>> \o Sorted(S \ {least})

SymbolRow(id, code) ==
  [symbol_id |-> id, symbol_code |-> code,
   base_currency |-> BaseOf(code), quote_currency |-> QuoteOf(code)]

EmptyTx == [symbols |-> {}, snapshots |-> {}, levels |-> {}]

\* the locals of one _handle_message: the message, now, the symbol_id and
\* snapshot_id the store got, whether the store inserted the symbol, and
\* where the store raised after how many rows of the executemany, the
\* state of the connection the statement that raised met, and the state of
\* the connection when the store was called
NoCur == [m |-> NoMsg, now |-> NoEntry, symbol_id |-> NoEntry,
          snapshot_id |-> NoEntry, created |-> FALSE, failed_at |-> "",
          levels_done |-> 0, failed_on |-> "", admitted_on |-> ""]

\* ------------------------------------------------------------ the database
\* SELECT symbol_id FROM upbit_symbols WHERE symbol_code = code: the rows a
\* statement sees are the committed ones and those of its own transaction.
SymbolRows(c, code) ==
  {r \in upbit_symbols \cup tx[c].symbols : r.symbol_code = code}

\* symbol_code VARCHAR(20) UNIQUE: an INSERT of a code that another open
\* transaction has inserted waits for that transaction to end ...
InsertWaits(c, code) ==
  \E d \in Conns \ {c} : \E r \in tx[d].symbols : r.symbol_code = code

\* Variant of UniqueViolation: upbit_symbols.symbol_code without UNIQUE.
NoUniqueConstraint(c, code) == FALSE

\* ... and an INSERT of a code that a visible row has raises UniqueViolation.
UniqueViolation(c, code) == SymbolRows(c, code) # {}

\* Variant of CommitTx: the store keeps the latest snapshot of an instrument
\* only, the commit replaces the instrument's earlier snapshots.
CommitTxKeepsLatest(c) ==
  /\ upbit_symbols' = upbit_symbols \cup tx[c].symbols
  /\ upbit_orderbook_snapshots' =
       {s \in upbit_orderbook_snapshots :
          \A t \in tx[c].snapshots : t.symbol_id # s.symbol_id}
       \cup tx[c].snapshots
  /\ upbit_order_book_data' = upbit_order_book_data \cup tx[c].levels
  /\ tx' = [tx EXCEPT ![c] = EmptyTx]

\* conn.commit(): the rows of the transaction become committed rows.
CommitTx(c) ==
  /\ upbit_symbols' = upbit_symbols \cup tx[c].symbols
  /\ upbit_orderbook_snapshots' = upbit_orderbook_snapshots \cup tx[c].snapshots
  /\ upbit_order_book_data' = upbit_order_book_data \cup tx[c].levels
  /\ tx' = [tx EXCEPT ![c] = EmptyTx]

\* Variant of RollbackTx: the except branch without conn.rollback().
RollbackTxSkipped(c) == UNCHANGED <<tx, dbvars>>

\* conn.rollback(): the rows of the transaction are discarded.
RollbackTx(c) ==
  /\ tx' = [tx EXCEPT ![c] = EmptyTx]
  /\ UNCHANGED dbvars

\* Variant of SnapshotRow: units_count is the book's usual depth instead of
\* len(units).
SnapshotRowFixedCount(id, symbol_id, m) ==
  [snapshot_id |-> id, symbol_id |-> symbol_id, timestamp |-> m.timestamp,
   units_count |-> MaxLevels]

\* the row of INSERT INTO upbit_orderbook_snapshots
SnapshotRow(id, symbol_id, m) ==
  [snapshot_id |-> id, symbol_id |-> symbol_id, timestamp |-> m.timestamp,
   units_count |-> Len(m.orderbook_units)]

\* Variant of LevelRows: enumerate(units) without the start value 1.
LevelRowsFromZero(snapshot_id, symbol_id, m, n) ==
  { [snapshot_id |-> snapshot_id, symbol_id |-> symbol_id,
     timestamp |-> m.timestamp, unit |-> m.orderbook_units[level],
     unit_level |-> level - 1] : level \in 1..n }

\* rows.append(...) for level, unit in enumerate(units, 1): the first n rows
LevelRows(snapshot_id, symbol_id, m, n) ==
  { [snapshot_id |-> snapshot_id, symbol_id |-> symbol_id,
     timestamp |-> m.timestamp, unit |-> m.orderbook_units[level],
     unit_level |-> level] : level \in 1..n }

\* ------------------------------------------------- UpbitOrderBookStreamer
\* Variants of Admit: the time of the last print for that of the last
\* store; no condition at all; an interval of 0 read as false
\* (`self.store_interval and ...`).
AdmitAgainstLastPrint(symbol, now) ==
  store_interval = 0 \/ now - Get(_last_print, symbol) >= store_interval
AdmitNoGate(symbol, now) == TRUE
AdmitZeroIsFalse(symbol, now) ==
  store_interval # 0 /\ now - Get(_last_store, symbol) >= store_interval

\* the store condition of _handle_message
Admit(symbol, now) ==
  store_interval = 0 \/ now - Get(_last_store, symbol) >= store_interval

\* the store condition as the same run without --print-spread evaluates it,
\* on its own _last_store
ShadowAdmit(symbol, now) ==
  store_interval = 0 \/ now - Get(sh_last_store, symbol) >= store_interval

\* Variant of Stamp: one time for all symbols instead of an entry per symbol.
StampAll(d, symbol, now) == [c \in DOMAIN d |-> now]

\* Variant of Stamp: the assignment is missing.
StampNothing(d, symbol, now) == d

\* d[symbol] = now
Stamp(d, symbol, now) == [d EXCEPT ![symbol] = now]

\* Variant of MaybePrintSpread: the print is timed against self._last_store,
\* the timer of the store condition.
MaybePrintSpreadOnStoreTimer(m, pnow) ==
  IF pnow - Get(_last_store, m.code) >= PrintInterval
     /\ Len(m.orderbook_units) > 0
  THEN Stamp(_last_print, m.code, pnow)
  ELSE _last_print

\* _maybe_print_spread: the value of self._last_print when it returns or
\* raises (max() of an empty orderbook_units raises ValueError before the
\* assignment).
MaybePrintSpread(m, pnow) ==
  IF pnow - Get(_last_print, m.code) >= PrintInterval
     /\ Len(m.orderbook_units) > 0
  THEN Stamp(_last_print, m.code, pnow)
  ELSE _last_print

\* `if self.print_spread: await self._maybe_print_spread(orderbook)`, which
\* reads time.time() again
PrintStep(m) ==
  IF print_spread
  THEN \E pnow \in clock..MaxTime :
         /\ _last_print' = MaybePrintSpread(m, pnow)
         /\ clock' = pnow
  ELSE UNCHANGED <<_last_print, clock>>

\* `async for message in ws`: the next message and the time of its handling
Receive(m, now) ==
  /\ pc = "recv"
  /\ nmsgs < MaxMsgs
  /\ nmsgs' = nmsgs + 1
  /\ now >= clock
  /\ clock' = now
  /\ cur' = [NoCur EXCEPT !.m = m, !.now = now]
  /\ pc' = "handle"
  /\ UNCHANGED <<cfgvars, shvars, supvars, mapvars, dbvars, seqvars, tx, racevars, histvars>>

\* Variant of Dropped: _handle_message without its check of the type.
DroppedNoTypeCheck(m) == ~m.json \/ m.code = NoCode

\* json.loads raises, the type is not "orderbook", or orderbook["code"]
\* raises KeyError: the message is dropped.
Dropped(m) == ~m.json \/ m.type # "orderbook" \/ m.code = NoCode

\* `if self._stop.is_set(): break` after _handle_message has returned: the
\* place _consumer_loop goes on at
AfterMessage == IF _stop THEN "closing" ELSE "recv"

\* Variant of HandleMessage: self._last_store[symbol] = now is outside the
\* `if` of the gate, an update that is not admitted is stamped too.
HandleMessageStampsRejected ==
  /\ pc = "handle"
  /\ IF Dropped(cur.m)
     THEN /\ pc' = AfterMessage
          /\ cur' = NoCur
          /\ verdict' = IF cur.m.json /\ cur.m.type # "orderbook"
                        THEN "ignored" ELSE "malformed"
          /\ UNCHANGED <<mapvars, clock, admittedAt, attempts>>
     ELSE IF Admit(cur.m.code, cur.now)
     THEN /\ pc' = "select_symbol"
          /\ admittedAt' = [admittedAt EXCEPT ![cur.m.code] = cur.now]
          /\ attempts' = [attempts EXCEPT ![nmsgs] = @ + 1]
          /\ cur' = [cur EXCEPT !.admitted_on = conn]
          /\ UNCHANGED <<mapvars, clock, verdict>>
     ELSE /\ pc' = AfterMessage
          /\ cur' = NoCur
          /\ verdict' = "rejected"
          /\ PrintStep(cur.m)
          /\ _last_store' = Stamp(_last_store, cur.m.code, cur.now)
          /\ UNCHANGED <<admittedAt, attempts>>
  /\ UNCHANGED <<cfgvars, shvars, supvars, nmsgs, dbvars, seqvars, tx, racevars,
                 arrival, failed_ids, storedAt>>

\* Variant of HandleMessage: the store is started as a task of its own and
\* _handle_message returns without awaiting it.
HandleMessageDetached ==
  /\ pc = "handle"
  /\ IF Dropped(cur.m)
     THEN /\ pc' = AfterMessage
          /\ cur' = NoCur
          /\ verdict' = IF cur.m.json /\ cur.m.type # "orderbook"
                        THEN "ignored" ELSE "malformed"
          /\ UNCHANGED <<mapvars, clock, admittedAt, attempts>>
     ELSE IF Admit(cur.m.code, cur.now)
     THEN /\ pc' = AfterMessage
          /\ admittedAt' = [admittedAt EXCEPT ![cur.m.code] = cur.now]
          /\ attempts' = [attempts EXCEPT ![nmsgs] = @ + 1]
          /\ cur' = [cur EXCEPT !.admitted_on = conn]
          /\ UNCHANGED <<mapvars, clock, verdict>>
     ELSE /\ pc' = AfterMessage
          /\ cur' = NoCur
          /\ verdict' = "rejected"
          /\ PrintStep(cur.m)
          /\ UNCHANGED <<_last_store, admittedAt, attempts>>
  /\ UNCHANGED <<cfgvars, shvars, supvars, nmsgs, dbvars, seqvars, tx,
                 racevars, arrival, failed_ids, storedAt>>

\* Variant of HandleMessage: _handle_message without its try/except, the
\* exception of json.loads or of orderbook["code"] reaching start().
HandleMessageNoExcept ==
  /\ pc = "handle"
  /\ IF ~cur.m.json \/ (cur.m.type = "orderbook" /\ cur.m.code = NoCode)
     THEN /\ ws' = "closed"
          /\ sent' = << >>
          /\ last_end' = "error"
          /\ waited' = 0
          /\ pc' = "sleeping"
          /\ cur' = NoCur
          /\ verdict' = "malformed"
          /\ UNCHANGED <<cfgvars, shvars, _stop, conn, closer, first_sub,
                         mapvars, nmsgs, clock, dbvars, seqvars, tx, racevars,
                         arrival, failed_ids, storedAt, admittedAt, attempts>>
     ELSE
          /\ IF Dropped(cur.m)
             THEN /\ pc' = AfterMessage
                  /\ cur' = NoCur
                  /\ verdict' = IF cur.m.json /\ cur.m.type # "orderbook"
                                THEN "ignored" ELSE "malformed"
                  /\ UNCHANGED <<mapvars, clock, admittedAt, attempts>>
             ELSE IF Admit(cur.m.code, cur.now)
             THEN /\ pc' = "select_symbol"
                  /\ admittedAt' = [admittedAt EXCEPT ![cur.m.code] = cur.now]
                  /\ attempts' = [attempts EXCEPT ![nmsgs] = @ + 1]
                  /\ cur' = [cur EXCEPT !.admitted_on = conn]
                  /\ UNCHANGED <<mapvars, clock, verdict>>
             ELSE /\ pc' = AfterMessage
                  /\ cur' = NoCur
                  /\ verdict' = "rejected"
                  /\ PrintStep(cur.m)
                  /\ UNCHANGED <<_last_store, admittedAt, attempts>>
          /\ UNCHANGED <<cfgvars, shvars, supvars, nmsgs, dbvars, seqvars, tx, racevars,
                         arrival, failed_ids, storedAt>>

\* _handle_message up to the await of the store: decode, type check, gate.
\* A message that is not stored goes on to the spread print and returns.
HandleMessage ==
  /\ pc = "handle"
  /\ IF Dropped(cur.m)
     THEN /\ pc' = AfterMessage
          /\ cur' = NoCur
          /\ verdict' = IF cur.m.json /\ cur.m.type # "orderbook"
                        THEN "ignored" ELSE "malformed"
          /\ UNCHANGED <<mapvars, clock, admittedAt, attempts>>
     ELSE IF Admit(cur.m.code, cur.now)
     THEN /\ pc' = "select_symbol"
          /\ admittedAt' = [admittedAt EXCEPT ![cur.m.code] = cur.now]
          /\ attempts' = [attempts EXCEPT ![nmsgs] = @ + 1]
          /\ cur' = [cur EXCEPT !.admitted_on = conn]
          /\ UNCHANGED <<mapvars, clock, verdict>>
     ELSE /\ pc' = AfterMessage
          /\ cur' = NoCur
          /\ verdict' = "rejected"
          /\ PrintStep(cur.m)
          /\ UNCHANGED <<_last_store, admittedAt, attempts>>
  /\ UNCHANGED <<cfgvars, shvars, supvars, nmsgs, dbvars, seqvars, tx, racevars,
                 arrival, failed_ids, storedAt>>

\* Variant of SelectSymbol: get_or_create_symbol_id without `if row: return
\* row[0]`, it goes on to its INSERT whatever the SELECT returned.
SelectSymbolAlwaysInserts ==
  /\ pc = "select_symbol"
  /\ conn = "open"
  /\ pc' = "insert_symbol"
  /\ UNCHANGED <<cfgvars, shvars, supvars, mapvars, nmsgs, clock, dbvars, seqvars, tx, racevars,
                 histvars, cur>>

\* get_or_create_symbol_id: the SELECT and `if row: return row[0]`
SelectSymbol ==
  /\ pc = "select_symbol"
  /\ conn = "open"
  /\ LET rows == SymbolRows(Streamer, cur.m.code) IN
       IF rows # {}
       THEN /\ cur' = [cur EXCEPT !.symbol_id =
                         (CHOOSE r \in rows : TRUE).symbol_id]
            /\ pc' = "insert_snapshot"
       ELSE /\ pc' = "insert_symbol"
            /\ UNCHANGED cur
  /\ UNCHANGED <<cfgvars, shvars, supvars, mapvars, nmsgs, clock, dbvars, seqvars, tx, racevars,
                 histvars>>

\* get_or_create_symbol_id: INSERT INTO upbit_symbols ... RETURNING symbol_id
InsertSymbol ==
  /\ pc = "insert_symbol"
  /\ conn = "open"
  /\ ~InsertWaits(Streamer, cur.m.code)
  /\ symbol_seq' = symbol_seq + 1
  /\ IF UniqueViolation(Streamer, cur.m.code)
     THEN /\ pc' = "failed"
          /\ cur' = [cur EXCEPT !.failed_at = pc, !.failed_on = conn]
          /\ UNCHANGED tx
     ELSE /\ tx' = [tx EXCEPT ![Streamer].symbols =
                      @ \cup {SymbolRow(symbol_seq, cur.m.code)}]
          /\ cur' = [cur EXCEPT !.symbol_id = symbol_seq, !.created = TRUE]
          /\ pc' = "commit_symbol"
  /\ UNCHANGED <<cfgvars, shvars, supvars, mapvars, nmsgs, clock, dbvars, snapshot_seq,
                 racevars, histvars>>

\* Variant of CommitSymbol: get_or_create_symbol_id without its conn.commit(),
\* the symbol row staying in the transaction of the store.
CommitSymbolDeferred ==
  /\ pc = "commit_symbol"
  /\ pc' = "insert_snapshot"
  /\ UNCHANGED <<cfgvars, shvars, supvars, mapvars, nmsgs, clock, cur, dbvars, seqvars, tx,
                 racevars, histvars>>

\* get_or_create_symbol_id: conn.commit() after the INSERT
CommitSymbol ==
  /\ pc = "commit_symbol"
  /\ conn = "open"
  /\ CommitTx(Streamer)
  /\ pc' = "insert_snapshot"
  /\ UNCHANGED <<cfgvars, shvars, supvars, mapvars, nmsgs, clock, cur, seqvars, racevars,
                 histvars>>

\* store_orderbook_snapshot: INSERT INTO upbit_orderbook_snapshots
InsertSnapshot ==
  /\ pc = "insert_snapshot"
  /\ conn = "open"
  /\ tx' = [tx EXCEPT ![Streamer].snapshots =
              @ \cup {SnapshotRow(snapshot_seq, cur.symbol_id, cur.m)}]
  /\ cur' = [cur EXCEPT !.snapshot_id = snapshot_seq]
  /\ snapshot_seq' = snapshot_seq + 1
  /\ arrival' = [arrival EXCEPT ![snapshot_seq] = cur.now]
  /\ pc' = "insert_levels"
  /\ UNCHANGED <<cfgvars, shvars, supvars, mapvars, nmsgs, clock, dbvars, symbol_seq, racevars,
                 failed_ids, storedAt, admittedAt, attempts, verdict>>

\* store_orderbook_snapshot: cur.executemany(INSERT INTO upbit_order_book_data)
InsertLevels ==
  /\ pc = "insert_levels"
  /\ conn = "open"
  /\ tx' = [tx EXCEPT ![Streamer].levels =
              @ \cup LevelRows(cur.snapshot_id, cur.symbol_id, cur.m,
                               Len(cur.m.orderbook_units))]
  /\ cur' = [cur EXCEPT !.levels_done = Len(cur.m.orderbook_units)]
  /\ pc' = "commit"
  /\ UNCHANGED <<cfgvars, shvars, supvars, mapvars, nmsgs, clock, dbvars, seqvars, racevars,
                 histvars>>

\* executemany raises at row n + 1, after n rows went in
InsertLevelsFails(n) ==
  /\ pc = "insert_levels"
  /\ n < Len(cur.m.orderbook_units) \/ (n = 0 /\ conn # "open")
  /\ n > 0 => conn = "open"
  /\ tx' = [tx EXCEPT ![Streamer].levels =
              @ \cup LevelRows(cur.snapshot_id, cur.symbol_id, cur.m, n)]
  /\ cur' = [cur EXCEPT !.levels_done = n, !.failed_at = pc,
                        !.failed_on = conn]
  /\ pc' = "failed"
  /\ UNCHANGED <<cfgvars, shvars, supvars, mapvars, nmsgs, clock, dbvars, seqvars, racevars,
                 histvars>>

\* Variant of Commit: conn.commit() returns on a connection that is closed
\* or lost as it does on an open one.
CommitOnDeadConn ==
  /\ pc = "commit"
  /\ CommitTx(Streamer)
  /\ storedAt' = [storedAt EXCEPT ![cur.m.code] = cur.now]
  /\ sh_snapshots' = IF ShadowAdmit(cur.m.code, cur.now)
                     THEN sh_snapshots \cup tx[Streamer].snapshots
                     ELSE sh_snapshots
  /\ pc' = "stored"
  /\ UNCHANGED <<cfgvars, sh_last_store, supvars, mapvars, nmsgs, clock, cur, seqvars, racevars,
                 arrival, failed_ids, admittedAt, attempts, verdict>>

\* store_orderbook_snapshot: conn.commit()
Commit ==
  /\ pc = "commit"
  /\ conn = "open"
  /\ CommitTx(Streamer)
  /\ storedAt' = [storedAt EXCEPT ![cur.m.code] = cur.now]
  /\ sh_snapshots' = IF ShadowAdmit(cur.m.code, cur.now)
                     THEN sh_snapshots \cup tx[Streamer].snapshots
                     ELSE sh_snapshots
  /\ pc' = "stored"
  /\ UNCHANGED <<cfgvars, sh_last_store, supvars, mapvars, nmsgs, clock, cur, seqvars, racevars,
                 arrival, failed_ids, admittedAt, attempts, verdict>>

\* a statement of the store raises (the server refuses it, the connection
\* is lost): the SELECT, the INSERTs or a commit
StorePcs == {"select_symbol", "insert_symbol", "commit_symbol",
             "insert_snapshot", "commit"}
StorageError ==
  /\ pc \in StorePcs
  /\ cur' = [cur EXCEPT !.failed_at = pc, !.failed_on = conn]
  /\ pc' = "failed"
  /\ UNCHANGED <<cfgvars, shvars, supvars, mapvars, nmsgs, clock, dbvars, seqvars, tx,
                 racevars, histvars>>

\* `except Exception: conn.rollback(); raise` of get_or_create_symbol_id
\* and of store_orderbook_snapshot
Rollback ==
  /\ pc = "failed"
  /\ RollbackTx(Streamer)
  /\ failed_ids' = IF cur.snapshot_id = NoEntry THEN failed_ids
                   ELSE failed_ids \cup {cur.snapshot_id}
  /\ arrival' = IF cur.snapshot_id = NoEntry THEN arrival
                ELSE [arrival EXCEPT ![cur.snapshot_id] = NoEntry]
  /\ pc' = "raised"
  /\ UNCHANGED <<cfgvars, shvars, supvars, mapvars, nmsgs, clock, cur, seqvars, racevars,
                 storedAt, admittedAt, attempts, verdict>>

\* Variant of AfterStore: the spread print runs before the assignment of
\* self._last_store, and when it raises the assignment is skipped.
AfterStorePrintsFirst ==
  /\ pc = "stored"
  /\ IF print_spread
     THEN \E pnow \in clock..MaxTime :
            /\ _last_print' = MaybePrintSpread(cur.m, pnow)
            /\ clock' = pnow
            /\ _last_store' =
                 IF pnow - Get(_last_print, cur.m.code) >= PrintInterval
                    /\ Len(cur.m.orderbook_units) = 0
                 THEN _last_store
                 ELSE Stamp(_last_store, cur.m.code, cur.now)
     ELSE /\ _last_store' = Stamp(_last_store, cur.m.code, cur.now)
          /\ UNCHANGED <<_last_print, clock>>
  /\ sh_last_store' = IF ShadowAdmit(cur.m.code, cur.now)
                      THEN Stamp(sh_last_store, cur.m.code, cur.now)
                      ELSE sh_last_store
  /\ pc' = AfterMessage
  /\ cur' = NoCur
  /\ verdict' = "stored"
  /\ UNCHANGED <<cfgvars, sh_snapshots, supvars, nmsgs, dbvars, seqvars, tx, racevars, arrival, failed_ids,
                 storedAt, admittedAt, attempts>>

\* _handle_message after the store returned: self._last_store[symbol] = now,
\* then the spread print
AfterStore ==
  /\ pc = "stored"
  /\ _last_store' = Stamp(_last_store, cur.m.code, cur.now)
  /\ sh_last_store' = IF ShadowAdmit(cur.m.code, cur.now)
                      THEN Stamp(sh_last_store, cur.m.code, cur.now)
                      ELSE sh_last_store
  /\ PrintStep(cur.m)
  /\ pc' = AfterMessage
  /\ cur' = NoCur
  /\ verdict' = "stored"
  /\ UNCHANGED <<cfgvars, sh_snapshots, supvars, nmsgs, dbvars, seqvars, tx, racevars, arrival, failed_ids,
                 storedAt, admittedAt, attempts>>

\* Variant of HandlerExcept: the spread print is in a `finally` of
\* _handle_message, it runs after the except branch too.
HandlerExceptThenPrints ==
  /\ pc = "raised"
  /\ pc' = AfterMessage
  /\ cur' = NoCur
  /\ verdict' = "failed"
  /\ PrintStep(cur.m)
  /\ UNCHANGED <<cfgvars, shvars, supvars, _last_store, nmsgs, dbvars, seqvars, tx, racevars,
                 arrival, failed_ids, storedAt, admittedAt, attempts>>

\* Variant of HandlerExcept: the except branch hands the same update to
\* store_orderbook_snapshot again.
HandlerExceptRetries ==
  /\ pc = "raised"
  /\ pc' = "select_symbol"
  /\ cur' = [NoCur EXCEPT !.m = cur.m, !.now = cur.now]
  /\ attempts' = [attempts EXCEPT ![nmsgs] = @ + 1]
  /\ UNCHANGED <<cfgvars, shvars, supvars, mapvars, nmsgs, clock, dbvars, seqvars, tx,
                 racevars, arrival, failed_ids, storedAt, admittedAt,
                 verdict>>

\* Variant of HandlerExcept: _handle_message logs the exception and raises
\* it again, into _consumer_loop and start().
HandlerExceptReraises ==
  /\ pc = "raised"
  /\ pc' = "sleeping"
  /\ ws' = "closed"
  /\ sent' = << >>
  /\ last_end' = "error"
  /\ waited' = 0
  /\ cur' = NoCur
  /\ verdict' = "failed"
  /\ UNCHANGED <<cfgvars, shvars, _stop, conn, closer, first_sub, mapvars, nmsgs,
                 clock, dbvars, seqvars, tx, racevars, arrival, failed_ids, storedAt, admittedAt, attempts>>

\* _handle_message: `except Exception as exc: logging.error(...)`
HandlerExcept ==
  /\ pc = "raised"
  /\ pc' = AfterMessage
  /\ cur' = NoCur
  /\ verdict' = "failed"
  /\ UNCHANGED <<cfgvars, shvars, supvars, mapvars, nmsgs, clock, dbvars, seqvars, tx, racevars,
                 arrival, failed_ids, storedAt, admittedAt, attempts>>

\* ------------------------------------------- start, _consumer_loop, stop
\* start(): `while not self._stop.is_set()`, then _consumer_loop up to the
\* await of websockets.connect
WhileCheck ==
  /\ pc = "start"
  /\ pc' = IF _stop THEN "returned" ELSE "connecting"
  /\ UNCHANGED <<cfgvars, shvars, supvars, mapvars, cur, nmsgs, clock, dbvars,
                 seqvars, tx, racevars, histvars>>

\* `async with websockets.connect(...) as ws`: the handshake succeeds
Connected ==
  /\ pc = "connecting"
  /\ ws' = "open"
  /\ sent' = << >>
  /\ pc' = "subscribing"
  /\ UNCHANGED <<cfgvars, shvars, _stop, conn, closer, first_sub, last_end, waited,
                 mapvars, cur, nmsgs, clock, dbvars, seqvars, tx, racevars,
                 histvars>>

\* Variant of Failed: start() without its try/except, the exception of
\* _consumer_loop ending start().
FailedGivesUp ==
  /\ ws' = "closed"
  /\ sent' = << >>
  /\ last_end' = "error"
  /\ waited' = 0
  /\ pc' = "returned"
  /\ UNCHANGED <<cfgvars, shvars, _stop, conn, closer, first_sub, mapvars, cur,
                 nmsgs, clock, dbvars, seqvars, tx, racevars, histvars>>

\* start(): `except Exception`, logging.error, up to the await of the sleep
Failed ==
  /\ ws' = "closed"
  /\ sent' = << >>
  /\ last_end' = "error"
  /\ waited' = 0
  /\ pc' = "sleeping"
  /\ UNCHANGED <<cfgvars, shvars, _stop, conn, closer, first_sub, mapvars, cur,
                 nmsgs, clock, dbvars, seqvars, tx, racevars, histvars>>

\* websockets.connect raises: the endpoint is unreachable, the handshake
\* fails or times out
ConnectFails ==
  /\ pc = "connecting"
  /\ Failed

\* Variant of Subscribe: the subscription is sent twice.
SubscribeTwice ==
  /\ pc = "subscribing"
  /\ sent' = sent \o <<symbols, symbols>>
  /\ first_sub' = IF first_sub = NoCode THEN symbols ELSE first_sub
  /\ pc' = "recv"
  /\ UNCHANGED <<cfgvars, shvars, _stop, conn, closer, ws, last_end, waited, mapvars,
                 cur, nmsgs, clock, dbvars, seqvars, tx, racevars, histvars>>

\* await ws.send(json.dumps(subscribe_msg)), the codes being self.symbols
Subscribe ==
  /\ pc = "subscribing"
  /\ sent' = Append(sent, symbols)
  /\ first_sub' = IF first_sub = NoCode THEN symbols ELSE first_sub
  /\ pc' = "recv"
  /\ UNCHANGED <<cfgvars, shvars, _stop, conn, closer, ws, last_end, waited, mapvars,
                 cur, nmsgs, clock, dbvars, seqvars, tx, racevars, histvars>>

\* ws.send raises ConnectionClosed; `async with` closes the websocket
SubscribeFails ==
  /\ pc = "subscribing"
  /\ Failed

\* `async for message in ws` raises: ConnectionClosedError, a ping that is
\* not answered
StreamFails ==
  /\ pc = "recv"
  /\ Failed

\* `async for message in ws` ends: the remote end closed the connection
\* normally, _consumer_loop returns and start() goes round its loop
StreamEnds ==
  /\ pc = "recv"
  /\ ws' = "closed"
  /\ sent' = << >>
  /\ last_end' = "closed"
  /\ waited' = 0
  /\ pc' = "start"
  /\ UNCHANGED <<cfgvars, shvars, _stop, conn, closer, first_sub, mapvars, cur,
                 nmsgs, clock, dbvars, seqvars, tx, racevars, histvars>>

\* `break` after a message: `async with` closes the websocket,
\* _consumer_loop returns
Break ==
  /\ pc = "closing"
  /\ ws' = "closed"
  /\ sent' = << >>
  /\ last_end' = "break"
  /\ waited' = 0
  /\ pc' = "start"
  /\ UNCHANGED <<cfgvars, shvars, _stop, conn, closer, first_sub, mapvars, cur,
                 nmsgs, clock, dbvars, seqvars, tx, racevars, histvars>>

\* await asyncio.sleep(3) returns
EndSleep ==
  /\ pc = "sleeping"
  /\ waited' = RetryDelay
  /\ pc' = "start"
  /\ UNCHANGED <<cfgvars, shvars, _stop, conn, closer, ws, sent, first_sub, last_end,
                 mapvars, cur, nmsgs, clock, dbvars, seqvars, tx, racevars,
                 histvars>>

\* Variant of Stop: stop() sets the event and leaves self.conn alone.
StopSetsEventOnly ==
  /\ ~_stop
  /\ pc = "start" => last_end # "none"
  /\ _stop' = TRUE
  /\ UNCHANGED <<cfgvars, shvars, conn, closer, ws, sent, first_sub, last_end, waited,
                 mapvars, pc, cur, nmsgs, clock, dbvars, seqvars, tx,
                 racevars, histvars>>

\* SIGINT or SIGTERM: the task of stop() runs up to its await, it sets the
\* event and hands self.conn.close to a worker thread.  start() is entered
\* without a suspension after the signal handlers are installed, so its
\* first reading of the event precedes every stop().
Stop ==
  /\ ~_stop
  /\ pc = "start" => last_end # "none"
  /\ _stop' = TRUE
  /\ closer' = "pending"
  /\ UNCHANGED <<cfgvars, shvars, conn, ws, sent, first_sub, last_end, waited,
                 mapvars, pc, cur, nmsgs, clock, dbvars, seqvars, tx,
                 racevars, histvars>>

\* the worker thread of stop() runs self.conn.close(): the server discards
\* the open transaction
ConnClose ==
  /\ closer = "pending"
  /\ closer' = "done"
  /\ conn' = "closed"
  /\ tx' = [tx EXCEPT ![Streamer] = EmptyTx]
  /\ UNCHANGED <<cfgvars, shvars, _stop, ws, sent, first_sub, last_end, waited,
                 mapvars, pc, cur, nmsgs, clock, dbvars, seqvars, racevars,
                 histvars>>

\* the database server or the network to it goes away: the session and its
\* open transaction are gone, every later statement on self.conn raises
ConnLost ==
  /\ conn = "open"
  /\ conn' = "lost"
  /\ tx' = [tx EXCEPT ![Streamer] = EmptyTx]
  /\ UNCHANGED <<cfgvars, shvars, _stop, closer, ws, sent, first_sub, last_end,
                 waited, mapvars, pc, cur, nmsgs, clock, dbvars, seqvars,
                 racevars, histvars>>

\* main(): asyncio.run(main_async()) returns once start() has returned and
\* the worker threads have finished
RunReturns ==
  /\ pc = "returned"
  /\ closer = "done"
  /\ pc' = "exited"
  /\ UNCHANGED <<cfgvars, shvars, supvars, mapvars, cur, nmsgs, clock, dbvars,
                 seqvars, tx, racevars, histvars>>

\* ------------------------------------------------------------ main_async
\* [s.strip().upper() for s in args.symbols.split(",") if s.strip()]: the
\* pieces that are not blank
NotBlank(piece) == piece # NoCode
ParseSymbols(pieces) == SelectSeq(pieces, NotBlank)

\* fetch_symbols_from_db: SELECT symbol_code ... ORDER BY symbol_code
DbSymbols == Sorted({r.symbol_code : r \in upbit_symbols})

\* main_async: tmp_conn = connect_db(); check_and_create_tables(tmp_conn),
\* which inserts the default symbols when it creates upbit_symbols;
\* tmp_conn.close()
CheckTables ==
  /\ mpc = "check_tables"
  /\ db_connects' = db_connects + 1
  /\ tables' = "present"
  /\ IF tables = "missing"
     THEN /\ upbit_symbols' = {SymbolRow(symbol_seq, DefaultCode)}
          /\ symbol_seq' = symbol_seq + 1
     ELSE UNCHANGED <<upbit_symbols, symbol_seq>>
  /\ mpc' = "resolve"
  /\ UNCHANGED <<store_interval, print_spread, symbols, args_symbols,
                 args_store_interval,
                 file_symbols, exit_status, shvars, supvars, mapvars, pc, cur,
                 nmsgs, clock, upbit_orderbook_snapshots,
                 upbit_order_book_data, snapshot_seq, tx, racevars, histvars>>

\* Variant of ResolveSymbols: symbols.txt is read first and --symbols is
\* used when the file gives nothing.
ResolveSymbolsFileFirst ==
  /\ mpc = "resolve"
  /\ IF file_symbols # << >>
     THEN /\ symbols' = file_symbols
          /\ UNCHANGED db_connects
     ELSE IF args_symbols.given
     THEN /\ symbols' = ParseSymbols(args_symbols.pieces)
          /\ UNCHANGED db_connects
     ELSE /\ symbols' = DbSymbols
          /\ db_connects' = db_connects + 1
  /\ mpc' = "validate"
  /\ UNCHANGED <<store_interval, print_spread, args_symbols,
                 args_store_interval, file_symbols,
                 tables, exit_status, shvars, supvars, mapvars, pc, cur,
                 nmsgs, clock, dbvars, seqvars, tx, racevars, histvars>>

\* main_async: the symbols by precedence, --symbols, then symbols.txt, then
\* the database over a connection of its own
ResolveSymbols ==
  /\ mpc = "resolve"
  /\ IF args_symbols.given
     THEN /\ symbols' = ParseSymbols(args_symbols.pieces)
          /\ UNCHANGED db_connects
     ELSE IF file_symbols # << >>
     THEN /\ symbols' = file_symbols
          /\ UNCHANGED db_connects
     ELSE /\ symbols' = DbSymbols
          /\ db_connects' = db_connects + 1
  /\ mpc' = "validate"
  /\ UNCHANGED <<store_interval, print_spread, args_symbols,
                 args_store_interval, file_symbols,
                 tables, exit_status, shvars, supvars, mapvars, pc, cur,
                 nmsgs, clock, dbvars, seqvars, tx, racevars, histvars>>

\* Variant of StartOrExit: main_async without `if not symbols`.
StartUnchecked ==
  /\ mpc = "validate"
  /\ db_connects' = db_connects + 1
  /\ conn' = "open"
  /\ store_interval' = Max(0, args_store_interval)
  /\ mpc' = "started"
  /\ pc' = "start"
  /\ UNCHANGED <<print_spread, symbols, args_symbols,
                 args_store_interval,
                 file_symbols, tables, exit_status, shvars, _stop, closer, ws,
                 sent, first_sub, last_end, waited, mapvars, cur, nmsgs,
                 clock, dbvars, seqvars, tx, racevars, histvars>>

\* main_async: `if not symbols: sys.exit(1)`, else the streamer is
\* constructed, its __init__ calling connect_db, and start() is awaited
StartOrExit ==
  /\ mpc = "validate"
  /\ IF symbols = << >>
     THEN /\ exit_status' = 1
          /\ mpc' = "exited"
          /\ UNCHANGED <<db_connects, conn, pc, store_interval>>
     ELSE /\ db_connects' = db_connects + 1
          /\ conn' = "open"
          /\ store_interval' = Max(0, args_store_interval)
          /\ mpc' = "started"
          /\ pc' = "start"
          /\ UNCHANGED exit_status
  /\ UNCHANGED <<print_spread, symbols, args_symbols,
                 args_store_interval,
                 file_symbols, tables, shvars, _stop, closer, ws, sent,
                 first_sub, last_end, waited, mapvars, cur, nmsgs, clock,
                 dbvars, seqvars, tx, racevars, histvars>>

\* ------------------------------------ callers racing in get_or_create_symbol_id
\* Each caller has a connection of its own and calls
\* get_or_create_symbol_id(conn, code) once.
NoCall == [code |-> NoCode, symbol_id |-> NoEntry]

Call(c, code) ==
  /\ rpc[c] = "idle"
  /\ rpc' = [rpc EXCEPT ![c] = "select"]
  /\ rcur' = [rcur EXCEPT ![c] = [code |-> code, symbol_id |-> NoEntry]]
  /\ UNCHANGED <<cfgvars, shvars, supvars, mapvars, pc, cur, nmsgs, clock, dbvars, seqvars, tx,
                 histvars>>

\* the SELECT and `if row: return row[0]`
CallerSelect(c) ==
  /\ rpc[c] = "select"
  /\ LET rows == SymbolRows(c, rcur[c].code) IN
       IF rows # {}
       THEN /\ rcur' = [rcur EXCEPT ![c].symbol_id =
                          (CHOOSE r \in rows : TRUE).symbol_id]
            /\ rpc' = [rpc EXCEPT ![c] = "returned"]
       ELSE /\ rpc' = [rpc EXCEPT ![c] = "insert"]
            /\ UNCHANGED rcur
  /\ UNCHANGED <<cfgvars, shvars, supvars, mapvars, pc, cur, nmsgs, clock, dbvars, seqvars, tx,
                 histvars>>

\* INSERT INTO upbit_symbols ... RETURNING symbol_id
CallerInsert(c) ==
  /\ rpc[c] = "insert"
  /\ ~InsertWaits(c, rcur[c].code)
  /\ symbol_seq' = symbol_seq + 1
  /\ IF UniqueViolation(c, rcur[c].code)
     THEN /\ rpc' = [rpc EXCEPT ![c] = "failed"]
          /\ UNCHANGED <<rcur, tx>>
     ELSE /\ tx' = [tx EXCEPT ![c].symbols =
                      @ \cup {SymbolRow(symbol_seq, rcur[c].code)}]
          /\ rcur' = [rcur EXCEPT ![c].symbol_id = symbol_seq]
          /\ rpc' = [rpc EXCEPT ![c] = "commit"]
  /\ UNCHANGED <<cfgvars, shvars, supvars, mapvars, pc, cur, nmsgs, clock, dbvars, snapshot_seq,
                 histvars>>

\* conn.commit(); return symbol_id
CallerCommit(c) ==
  /\ rpc[c] = "commit"
  /\ CommitTx(c)
  /\ rpc' = [rpc EXCEPT ![c] = "returned"]
  /\ UNCHANGED <<cfgvars, shvars, supvars, mapvars, pc, cur, nmsgs, clock, seqvars, rcur,
                 histvars>>

\* except Exception: conn.rollback(); raise
CallerRollback(c) ==
  /\ rpc[c] = "failed"
  /\ RollbackTx(c)
  /\ rpc' = [rpc EXCEPT ![c] = "raised"]
  /\ UNCHANGED <<cfgvars, shvars, supvars, mapvars, pc, cur, nmsgs, clock, seqvars, rcur,
                 histvars>>

\* ------------------------------------------------------- the specifications
\* The tables as check_and_create_tables leaves them: upbit_symbols holds a
\* default symbol, the other two are empty.
InitDb ==
  /\ upbit_symbols = {SymbolRow(1, DefaultCode)}
  /\ symbol_seq = Cardinality(upbit_symbols) + 1
  /\ upbit_orderbook_snapshots = {}
  /\ upbit_order_book_data = {}
  /\ snapshot_seq = 1
  /\ tx = [c \in Conns |-> EmptyTx]

InitHist ==
  /\ arrival = [i \in 1..MaxMsgs |-> NoEntry]
  /\ failed_ids = {}
  /\ storedAt = [c \in Codes |-> NoEntry]
  /\ admittedAt = [c \in Codes |-> NoEntry]
  /\ attempts = [i \in 1..MaxMsgs |-> 0]
  /\ verdict = "none"
  /\ sh_last_store = [c \in Codes |-> NoEntry]
  /\ sh_snapshots = {}

\* UpbitOrderBookStreamer.__init__: store_interval = max(0.0, store_interval)
InitStreamer ==
  /\ args_store_interval \in -1..MaxTime
  /\ store_interval = Max(0, args_store_interval)
  /\ symbols \in SymbolLists
  /\ conn = "open"
  /\ _stop = FALSE
  /\ closer = "none"
  /\ _last_store = [c \in Codes |-> NoEntry]
  /\ _last_print = [c \in Codes |-> NoEntry]
  /\ cur = NoCur

InitCallers ==
  /\ rpc = [c \in Callers |-> "idle"]
  /\ rcur = [c \in Callers |-> NoCall]

\* _consumer_loop has connected and sent its subscription
InitStreaming ==
  /\ ws = "open"
  /\ sent = <<symbols>>
  /\ first_sub = symbols
  /\ last_end = "none"
  /\ waited = 0

\* start() has not run yet
InitStart ==
  /\ ws = "closed"
  /\ sent = << >>
  /\ first_sub = NoCode
  /\ last_end = "none"
  /\ waited = 0

\* main_async has run: the tables were there, --symbols gave the codes
MainDone ==
  /\ mpc = "started"
  /\ args_symbols = [given |-> TRUE, pieces |-> symbols]
  /\ file_symbols = << >>
  /\ tables = "present"
  /\ db_connects = 2
  /\ exit_status = NoEntry

\* One streamer, streaming; nothing stops it, its connections stay up;
\* --print-spread is left at its default, off.
Init ==
  /\ InitDb /\ InitHist /\ InitStreamer /\ InitCallers /\ InitStreaming
  /\ print_spread = FALSE
  /\ symbols = <<DefaultCode>>
  /\ pc = "recv"
  /\ nmsgs = 0
  /\ clock = 0
  /\ MainDone

Next ==
  \/ \E m \in Messages, now \in Times : Receive(m, now)
  \/ HandleMessage
  \/ SelectSymbol
  \/ InsertSymbol
  \/ CommitSymbol
  \/ InsertSnapshot
  \/ InsertLevels
  \/ \E n \in 0..MaxLevels : InsertLevelsFails(n)
  \/ Commit
  \/ StorageError
  \/ Rollback
  \/ AfterStore
  \/ HandlerExcept

Spec == Init /\ [][Next]_vars

\* Callers on connections of their own resolving symbol codes, no streamer.
InitRace ==
  /\ InitDb /\ InitHist /\ InitStreamer /\ InitCallers /\ InitStart
  /\ print_spread = FALSE
  /\ symbols = <<DefaultCode>>
  /\ args_store_interval = 0
  /\ store_interval = 0
  /\ pc = "stopped"
  /\ nmsgs = 0
  /\ clock = 0
  /\ MainDone

NextRace ==
  \/ \E c \in Callers, code \in Codes : Call(c, code)
  \/ \E c \in Callers : CallerSelect(c)
  \/ \E c \in Callers : CallerInsert(c)
  \/ \E c \in Callers : CallerCommit(c)
  \/ \E c \in Callers : CallerRollback(c)

SpecRace == InitRace /\ [][NextRace]_vars

\* get_or_create_symbol_id called once for a code of any shape: no "-", one
\* or more of them, leading, trailing or doubled.
CodeChars   == {"U", "-", "B"}
SymbolCodes == UNION { [1..n -> CodeChars] : n \in 1..MaxCodeLen }

InitSymbol ==
  /\ InitDb /\ InitHist /\ InitStreamer /\ InitCallers /\ InitStart
  /\ print_spread = FALSE
  /\ symbols = <<DefaultCode>>
  /\ args_store_interval = 0
  /\ store_interval = 0
  /\ pc = "stopped"
  /\ nmsgs = 0
  /\ clock = 0
  /\ MainDone

NextSymbol ==
  \/ \E code \in SymbolCodes : Call(1, code)
  \/ CallerSelect(1)
  \/ CallerInsert(1)
  \/ CallerCommit(1)

SpecSymbol == InitSymbol /\ [][NextSymbol]_vars

\* The program from its start: what --symbols, symbols.txt and the database
\* give, and main_async up to the streamer's first connection attempts.
CliArgs  == { [given |-> FALSE, pieces |-> << NoCode >>],
              [given |-> TRUE, pieces |-> << NoCode, NoCode >>],
              [given |-> TRUE, pieces |-> << <<"B">>, NoCode >>] }
FileLists == { << >>, << <<"B">>, DefaultCode >> }

InitMain ==
  /\ InitHist /\ InitCallers /\ InitStart
  /\ args_store_interval \in -1..MaxTime
  /\ store_interval = 0
  /\ print_spread = FALSE
  /\ symbols = << >>
  /\ conn = "none"
  /\ _stop = FALSE
  /\ closer = "none"
  /\ _last_store = [c \in Codes |-> NoEntry]
  /\ _last_print = [c \in Codes |-> NoEntry]
  /\ cur = NoCur
  /\ args_symbols \in CliArgs
  /\ file_symbols \in FileLists
  /\ tables \in {"missing", "present"}
  /\ upbit_symbols \in
       IF tables = "missing" THEN { {} }
       ELSE { {}, {SymbolRow(1, DefaultCode), SymbolRow(2, <<"B">>)} }
  /\ symbol_seq = Cardinality(upbit_symbols) + 1
  /\ upbit_orderbook_snapshots = {}
  /\ upbit_order_book_data = {}
  /\ snapshot_seq = 1
  /\ tx = [c \in Conns |-> EmptyTx]
  /\ mpc = "check_tables"
  /\ db_connects = 0
  /\ exit_status = NoEntry
  /\ pc = "main"
  /\ nmsgs = 0
  /\ clock = 0

NextMain ==
  \/ CheckTables
  \/ ResolveSymbols
  \/ StartOrExit
  \/ WhileCheck
  \/ Connected
  \/ ConnectFails
  \/ Subscribe
  \/ SubscribeFails
  \/ StreamFails
  \/ StreamEnds
  \/ EndSleep

SpecMain == InitMain /\ [][NextMain]_vars

\* One streamer, streaming, started with --print-spread; the feed sends a
\* message of another type, books of no rung and of one rung of a code and
\* the one-rung book of a second code.
PrintMessages == { Ticker,
                   [json |-> TRUE, type |-> "orderbook", code |-> DefaultCode,
                    timestamp |-> TimestampOf(DefaultCode),
                    orderbook_units |-> Units(0)],
                   [json |-> TRUE, type |-> "orderbook", code |-> DefaultCode,
                    timestamp |-> TimestampOf(DefaultCode),
                    orderbook_units |-> Units(1)],
                   [json |-> TRUE, type |-> "orderbook", code |-> <<"B">>,
                    timestamp |-> TimestampOf(<<"B">>),
                    orderbook_units |-> Units(1)] }

InitPrint ==
  /\ InitDb /\ InitHist /\ InitStreamer /\ InitCallers /\ InitStreaming
  /\ print_spread = TRUE
  /\ symbols = <<DefaultCode>>
  /\ pc = "recv"
  /\ nmsgs = 0
  /\ clock = 0
  /\ MainDone

NextPrint ==
  \/ \E m \in PrintMessages, now \in Times : Receive(m, now)
  \/ HandleMessage
  \/ SelectSymbol
  \/ InsertSymbol
  \/ CommitSymbol
  \/ InsertSnapshot
  \/ InsertLevels
  \/ \E n \in 0..MaxLevels : InsertLevelsFails(n)
  \/ Commit
  \/ StorageError
  \/ Rollback
  \/ AfterStore
  \/ HandlerExcept

SpecPrint == InitPrint /\ [][NextPrint]_vars

\* main_async: the streamer is constructed and start() is awaited; signals
\* stop it, the feed and the database server may fail.
InitSup ==
  /\ InitDb /\ InitHist /\ InitStreamer /\ InitCallers /\ InitStart
  /\ print_spread = FALSE
  /\ args_store_interval = 0
  /\ store_interval = 0
  /\ pc = "start"
  /\ nmsgs = 0
  /\ clock = 0
  /\ MainDone

\* the steps of start() and of the store it awaits
TaskStep ==
  \/ WhileCheck
  \/ Subscribe
  \/ HandleMessage
  \/ SelectSymbol
  \/ InsertSymbol
  \/ CommitSymbol
  \/ InsertSnapshot
  \/ InsertLevels
  \/ Commit
  \/ Rollback
  \/ AfterStore
  \/ HandlerExcept
  \/ Break
  \/ EndSleep

\* the steps of the program itself: start(), the thread of stop(), main()
ProgramStep == TaskStep \/ ConnClose \/ RunReturns

\* what the feed, the database server and the operator do
EnvStep ==
  \/ Connected
  \/ ConnectFails
  \/ SubscribeFails
  \/ \E m \in FeedMessages, now \in Times : Receive(m, now)
  \/ StreamFails
  \/ StreamEnds
  \/ \E n \in 0..MaxLevels : InsertLevelsFails(n)
  \/ StorageError
  \/ ConnLost
  \/ Stop

NextSup == ProgramStep \/ EnvStep

SpecSup == InitSup /\ [][NextSup]_vars

\* a statement on a connection that is closed or lost raises
StatementOnDeadConn ==
  conn # "open" /\ (StorageError \/ InsertLevelsFails(0))

\* The event loop and the worker threads keep running: a step of start()
\* that can be taken is taken, a statement on a dead connection raises,
\* the thread of stop() runs, and websockets.connect returns or raises
\* (its open_timeout).  Nothing obliges the feed to send a message or to
\* end the stream, nor a signal to arrive.
SpecSupFair ==
  /\ SpecSup
  /\ WF_vars(TaskStep \/ StatementOnDeadConn)
  /\ WF_vars(ConnClose)
  /\ WF_vars(RunReturns)
  /\ WF_vars(Connected \/ ConnectFails)

\* ------------------------------------------------------------- properties
\* the update in hand is a decoded orderbook update of an instrument
Decoded == pc = "handle" /\ ~Dropped(cur.m)
\* the step that hands the update in hand to store_orderbook_snapshot
Admitted == pc = "handle" /\ pc' = "select_symbol"
\* the store of the update in hand raised at its snapshot or level insert
FailedAfterSymbol ==
  pc = "raised" /\ cur.failed_at \in {"insert_snapshot", "insert_levels"}
SnapshotsOf(symbol_id) ==
  {s \in upbit_orderbook_snapshots : s.symbol_id = symbol_id}
LevelsOf(snapshot_id) ==
  {r \in upbit_order_book_data : r.snapshot_id = snapshot_id}

C2_FirstUpdateAdmitted ==
  [][(Decoded /\ _last_store[cur.m.code] = NoEntry) => Admitted]_vars

C4_OneWritePerInterval ==
  store_interval > 0 =>
    \A s1, s2 \in upbit_orderbook_snapshots :
      (s1 # s2 /\ s1.symbol_id = s2.symbol_id) =>
        \/ arrival[s1.snapshot_id] - arrival[s2.snapshot_id] >= store_interval
        \/ arrival[s2.snapshot_id] - arrival[s1.snapshot_id] >= store_interval

\* C4 witness: two committed snapshots of one instrument under a positive
\* interval.
C4_Witness ==
  /\ store_interval > 0
  /\ \E s1, s2 \in upbit_orderbook_snapshots :
       s1 # s2 /\ s1.symbol_id = s2.symbol_id

\* C5: with store_interval = 0 every decoded orderbook update is handed to
\* the writer.
C5_PassThrough ==
  [][(Decoded /\ store_interval = 0) => Admitted]_vars

\* C5 witness: with store_interval = 0 an update is handed to the writer
\* in the very second of the instrument's last store.
C5_Witness ==
  /\ pc = "select_symbol"
  /\ store_interval = 0
  /\ _last_store[cur.m.code] = cur.now

\* C6: the commit of a store of an update with N levels adds exactly one
\* snapshot row, with units_count = N, and exactly N level rows, of ranks
\* 1..N in the order of the message; all carry the instrument's id and the
\* message's timestamp, the level rows the new snapshot's id.
C6_StoreAddsSnapshotAndLevels ==
  [][(pc = "commit" /\ pc' = "stored") =>
       LET N == Len(cur.m.orderbook_units)
           newS == upbit_orderbook_snapshots' \ upbit_orderbook_snapshots
           newL == upbit_order_book_data' \ upbit_order_book_data
       IN /\ upbit_orderbook_snapshots \subseteq upbit_orderbook_snapshots'
          /\ upbit_order_book_data \subseteq upbit_order_book_data'
          /\ Cardinality(newS) = 1
          /\ Cardinality(newL) = N
          /\ \A s \in newS :
               /\ s.units_count = N
               /\ s.timestamp = cur.m.timestamp
               /\ \E y \in upbit_symbols' :
                    y.symbol_code = cur.m.code /\ y.symbol_id = s.symbol_id
               /\ \A l \in upbit_orderbook_snapshots :
                    l.snapshot_id # s.snapshot_id
               /\ \A k \in 1..N : \E r \in newL :
                    /\ r.unit_level = k
                    /\ r.unit = cur.m.orderbook_units[k]
                    /\ r.snapshot_id = s.snapshot_id
                    /\ r.symbol_id = s.symbol_id
                    /\ r.timestamp = s.timestamp]_vars

\* C6 witness: a store of an update with at least two levels has committed.
C6_Witness ==
  /\ pc = "stored"
  /\ Len(cur.m.orderbook_units) >= 2
  /\ Cardinality(LevelsOf(cur.snapshot_id)) >= 2

\* C7: no snapshot row and no level row of a store that failed after its
\* snapshot insert is in committed storage, neither when the store raises
\* nor at any later time.
C7_AllOrNothing ==
  LET gone == failed_ids \cup
              (IF pc = "failed" /\ cur.snapshot_id # NoEntry
               THEN {cur.snapshot_id} ELSE {})
  IN \A id \in gone :
       /\ \A s \in upbit_orderbook_snapshots : s.snapshot_id # id
       /\ LevelsOf(id) = {}

\* C7 witness: a store failed in its executemany after one row of several
\* and was rolled back, after an earlier store had committed.
C7_Witness ==
  /\ pc = "raised"
  /\ cur.failed_at = "insert_levels"
  /\ cur.levels_done = 1
  /\ cur.snapshot_id \in failed_ids
  /\ upbit_orderbook_snapshots # {}

\* C8: in committed storage every snapshot has exactly units_count level
\* rows, of ranks 1..units_count; every level row has exactly one snapshot,
\* of the same instrument.
C8_StorageInvariant ==
  /\ \A s \in upbit_orderbook_snapshots :
       /\ Cardinality(LevelsOf(s.snapshot_id)) = s.units_count
       /\ {r.unit_level : r \in LevelsOf(s.snapshot_id)} = 1..s.units_count
  /\ \A r \in upbit_order_book_data :
       /\ Cardinality({s \in upbit_orderbook_snapshots :
                         s.snapshot_id = r.snapshot_id}) = 1
       /\ \A s \in upbit_orderbook_snapshots :
            s.snapshot_id = r.snapshot_id => s.symbol_id = r.symbol_id

\* C8 witness: committed storage holds a snapshot with two or more levels
\* while another store has failed after its snapshot insert.
C8_Witness ==
  /\ failed_ids # {}
  /\ \E s \in upbit_orderbook_snapshots : s.units_count >= 2

\* C9 as stated: when a store that inserted the symbol row of an unseen code
\* fails at its snapshot or level insert, no symbol row of that code is in
\* committed storage.
C9_SymbolRolledBackWithStore ==
  (FailedAfterSymbol /\ cur.created) =>
    \A y \in upbit_symbols : y.symbol_code # cur.m.code

\* C9 amended: when a store that inserted the symbol row of an unseen code
\* fails at its snapshot or level insert, no snapshot or level row of that
\* instrument is in committed storage, and the symbol row the call inserted
\* is.
C9_SymbolSurvivesFailedStore ==
  (FailedAfterSymbol /\ cur.created) =>
    /\ \E y \in upbit_symbols :
         y = SymbolRow(cur.symbol_id, cur.m.code)
    /\ SnapshotsOf(cur.symbol_id) = {}
    /\ \A r \in upbit_order_book_data : r.symbol_id # cur.symbol_id

\* C9 witness: a store that inserted a symbol row failed in its executemany.
C9_Witness ==
  /\ FailedAfterSymbol
  /\ cur.created
  /\ cur.failed_at = "insert_levels"

\* C10: committed storage never holds two symbol rows of one code, and when
\* every caller has finished it holds exactly one row of each code called.
C10_UniqueCode ==
  /\ \A code \in Codes :
       Cardinality({y \in upbit_symbols : y.symbol_code = code}) <= 1
  /\ (\A c \in Callers : rpc[c] \in {"returned", "raised"}) =>
       \A c \in Callers :
         Cardinality({y \in upbit_symbols :
                        y.symbol_code = rcur[c].code}) = 1

\* C10 witness: every caller has finished, and two of them had both found
\* the same unseen code absent: one inserted it, the other's insert raised.
C10_Witness ==
  /\ \A c \in Callers : rpc[c] \in {"returned", "raised"}
  /\ \E c1, c2 \in Callers :
       /\ rcur[c1].code = rcur[c2].code
       /\ rpc[c1] = "returned" /\ rcur[c1].symbol_id > 1
       /\ rpc[c2] = "raised"

\* C11: every call of get_or_create_symbol_id that has finished has returned
\* (none raised a duplicate-key failure), and the calls that resolved one
\* code returned the same symbol_id.
C11_ConcurrentCallsAllReturn ==
  \A c \in Callers :
    rpc[c] \in {"returned", "raised"} =>
      /\ rpc[c] = "returned"
      /\ \A d \in Callers :
           (rpc[d] = "returned" /\ rcur[d].code = rcur[c].code)
             => rcur[d].symbol_id = rcur[c].symbol_id

\* --------------------------------------------- properties of the supervisor
\* the places of start() in the terms of the supervisor's states
Connecting   == pc \in {"connecting", "subscribing"}
Streaming    == pc \in {"recv", "handle", "insert_levels", "failed",
                        "stored", "raised", "closing"} \cup StorePcs
Disconnected == pc = "sleeping" \/ (pc = "start" /\ last_end # "none")
Stopped      == pc \in {"returned", "exited"}
\* store_orderbook_snapshot is executing in its worker thread
InStore      == pc \in StorePcs \cup {"insert_levels", "failed"}
\* the step in which start() begins a connection attempt
ConnectionAttempt == pc = "start" /\ pc' = "connecting"

\* C12: every connection attempt but the first of a run comes after the
\* retry delay has been waited since the feed stream last ended.
C12_DelayBeforeEveryReconnect ==
  [][(ConnectionAttempt /\ last_end # "none") => waited >= RetryDelay]_vars

\* C13: start() returns only after a shutdown was requested, whatever has
\* failed before; and with the event loop running, a supervisor that is
\* disconnected goes on to a new connection attempt unless a shutdown is
\* requested.
C13_NeverGivesUp ==
  /\ [](Stopped => _stop)
  /\ (Disconnected /\ ~_stop) ~> (pc = "connecting" \/ _stop)

\* C13 witness: a connection attempt after a failed attempt or stream, with
\* every message of the run used up and no shutdown requested.
C13_Witness ==
  /\ pc = "connecting"
  /\ last_end = "error"
  /\ waited = RetryDelay
  /\ nmsgs = MaxMsgs
  /\ ~_stop

\* C14: a websocket carries at most one subscription; while the supervisor
\* is streaming, and so whenever a message is read, exactly one has been
\* sent on the open websocket, naming the list of the first subscription,
\* which is self.symbols; a closed websocket carries none.
C14_OneSubscriptionPerConnection ==
  /\ Len(sent) <= 1
  /\ Streaming => (ws = "open" /\ sent = <<first_sub>> /\ first_sub = symbols)
  /\ ws = "closed" => sent = << >>

\* C14 witness: a message has been read on a websocket opened after an
\* earlier one ended, and the subscription on it names the first list.
C14_Witness ==
  /\ pc = "handle"
  /\ last_end # "none"
  /\ sent = <<first_sub>>
  /\ Len(first_sub) = 2

\* C15: with the event loop running and no further message from the feed
\* required, a requested shutdown leads to start() having returned,
\* whatever state the supervisor was in.
C15_StopReachesStopped == _stop ~> Stopped

\* C16: the storage connection is not closed in a step taken while
\* store_orderbook_snapshot is executing for a received message.
C16_NoCloseDuringStore ==
  [][(conn # "closed" /\ conn' = "closed") => ~InStore]_vars

C18_ConnectionLossRecovered ==
  /\ [][(pc = "raised" /\ cur.failed_on = "lost" /\ ~_stop /\ pc' # pc)
         => pc' = "sleeping"]_vars
  /\ (pc = "raised" /\ cur.failed_on = "lost") ~> (conn = "open" \/ _stop)

\* C19: the step that ends the handling of a message whose store raised
\* leaves the supervisor in Streaming on the same open websocket with the
\* subscription it had, and, unless a shutdown was requested, at the read
\* of the next message.
C19_FailedStoreKeepsConnection ==
  [][pc = "raised" =>
       /\ ws = "open" /\ ws' = "open"
       /\ sent' = sent
       /\ Streaming'
       /\ (pc' # pc /\ ~_stop) => pc' = "recv"]_vars

\* C19 witness: on the first websocket of the run the store of the first
\* message raised and the store of the second message has committed.
C19_Witness ==
  /\ pc = "stored"
  /\ last_end = "none"
  /\ nmsgs = 2
  /\ attempts[1] = 1 /\ attempts[2] = 1
  /\ Cardinality(upbit_orderbook_snapshots) = 1

\* C20: store_orderbook_snapshot is called at most once for each message
\* received and not at all for a message not yet received, and no snapshot
\* id handed out by a store that failed is in committed storage.
C20_AtMostOneStoreAttempt ==
  /\ \A k \in 1..MaxMsgs :
       attempts[k] <= (IF k <= nmsgs THEN 1 ELSE 0)
  /\ \A s \in upbit_orderbook_snapshots : s.snapshot_id \notin failed_ids
  /\ \A r \in upbit_order_book_data : r.snapshot_id \notin failed_ids

\* C20 witness: the store of an earlier message failed after it had got its
\* snapshot id, and a later message has been received and stored.
C20_Witness ==
  /\ pc = "recv"
  /\ nmsgs > 1
  /\ attempts[1] = 1 /\ attempts[nmsgs] = 1
  /\ \E f \in failed_ids : \E s \in upbit_orderbook_snapshots :
       f < s.snapshot_id

\* C21: the handling of a parsed message whose type is not "orderbook"
\* calls no store, changes no table, no open transaction and no sequence,
\* leaves _last_store and _last_print as they are, and leaves the
\* supervisor in Streaming on its open websocket.
C21_OtherTypeNoEffect ==
  [][(pc = "handle" /\ cur.m.json /\ cur.m.type # "orderbook") =>
       /\ attempts' = attempts
       /\ dbvars' = dbvars /\ tx' = tx /\ seqvars' = seqvars
       /\ mapvars' = mapvars
       /\ Streaming' /\ ws' = "open"]_vars

\* C21 witness: with --print-spread, after a store and a print of the
\* instrument, a message of another type naming it has been handled.
C21_Witness ==
  /\ pc = "recv"
  /\ verdict = "ignored"
  /\ print_spread
  /\ _last_store[DefaultCode] # NoEntry
  /\ _last_print[DefaultCode] # NoEntry

\* the message in hand cannot be parsed or is an orderbook message without
\* its code
Malformed ==
  pc = "handle" /\ (~cur.m.json \/ (cur.m.type = "orderbook"
                                    /\ cur.m.code = NoCode))

\* C22: the handling of a malformed message calls no store, changes no
\* table, no sequence and neither _last_store nor _last_print, and leaves
\* the supervisor in Streaming on the same open websocket, at the read of
\* the next message unless a shutdown was requested.
C22_MalformedDropped ==
  [][Malformed =>
       /\ attempts' = attempts
       /\ dbvars' = dbvars /\ seqvars' = seqvars
       /\ mapvars' = mapvars
       /\ ws' = "open" /\ sent' = sent /\ last_end' = last_end
       /\ Streaming'
       /\ (pc' # pc /\ ~_stop) => pc' = "recv"]_vars

\* C22 witness: on the first websocket of the run the message after a
\* malformed one has been stored.
C22_Witness ==
  /\ pc = "stored"
  /\ verdict = "malformed"
  /\ last_end = "none"

\* C23 as stated: when the process has exited for want of symbols, its
\* status is not 0 and it has attempted no websocket connection and no
\* database connection.
C23_ExitBeforeAnyConnection ==
  exit_status # NoEntry =>
    /\ exit_status # 0
    /\ pc = "main" /\ ws = "closed" /\ first_sub = NoCode
    /\ db_connects = 0

\* C23 amended: the process exits with status 1 only when no symbol was
\* resolved; it has then not called start(), so attempted no websocket
\* connection, and has not made the streamer's database connection, its
\* only database connections being the one of the table check and, when
\* --symbols was not given, the one of the symbol lookup; and start() is
\* never called without symbols.
C23_ExitBeforeFeedConnection ==
  /\ exit_status # NoEntry =>
       /\ exit_status = 1
       /\ symbols = << >>
       /\ pc = "main" /\ ws = "closed" /\ first_sub = NoCode
       /\ conn = "none"
       /\ db_connects = (IF args_symbols.given THEN 1 ELSE 2)
  /\ pc # "main" => symbols # << >>

\* C23 witness: neither --symbols nor symbols.txt nor the database gave a
\* symbol and the process has exited, after two database connections.
C23_Witness ==
  /\ exit_status = 1
  /\ ~args_symbols.given
  /\ file_symbols = << >>
  /\ upbit_symbols = {}
  /\ db_connects = 2

\* C24: of two committed snapshots of one instrument the one with the
\* smaller snapshot_id belongs to the update that arrived no later; and a
\* message is read only when the handling of the one before has returned,
\* its store committed or rolled back.
C24_ArrivalOrder ==
  /\ [](\A s1, s2 \in upbit_orderbook_snapshots :
          (s1.symbol_id = s2.symbol_id /\ s1.snapshot_id < s2.snapshot_id)
            => arrival[s1.snapshot_id] <= arrival[s2.snapshot_id])
  /\ [][nmsgs' # nmsgs =>
          (pc = "recv" /\ cur = NoCur /\ tx[Streamer] = EmptyTx)]_vars

\* C24 witness: two committed snapshots of one instrument whose updates
\* arrived at different times.
C24_Witness ==
  \E s1, s2 \in upbit_orderbook_snapshots :
    /\ s1.symbol_id = s2.symbol_id
    /\ s1.snapshot_id < s2.snapshot_id
    /\ arrival[s1.snapshot_id] < arrival[s2.snapshot_id]

\* a store has executed its first statement and has neither committed nor
\* rolled back
MidStore == pc \in (StorePcs \ {"select_symbol"}) \cup {"insert_levels", "failed"}

\* C25: between the first statement of a store and its commit or rollback
\* no other operation runs on self.conn: the close of stop() does not run,
\* and the connection's transaction is touched by the store alone.
C25_StoreAloneOnConn ==
  [][MidStore => (closer' = closer \/ closer' # "done")]_vars

\* C26: a run with --print-spread and the run without it on the same
\* messages, arrival times and storage outcomes agree at every step: they
\* hold the same _last_store and the same committed snapshots, and they
\* admit the same updates.
C26_PrintDoesNotInterfere ==
  /\ [](sh_last_store = _last_store /\ sh_snapshots = upbit_orderbook_snapshots)
  /\ [][Decoded => (Admitted <=> ShadowAdmit(cur.m.code, cur.now))]_vars

\* C26 witness: with --print-spread and a throttle, an update with no level
\* that arrived when a print was due was stored and stamped; its spread
\* print raised, self._last_print has no entry.
C26_Witness ==
  /\ print_spread
  /\ store_interval > 0
  /\ pc = "recv"
  /\ verdict = "stored"
  /\ _last_print[DefaultCode] = NoEntry
  /\ \E s \in upbit_orderbook_snapshots :
       /\ s.units_count = 0
       /\ arrival[s.snapshot_id] >= PrintInterval
       /\ _last_store[DefaultCode] = arrival[s.snapshot_id]

\* C27: no step of the program or of its environment removes or changes a
\* committed row of upbit_orderbook_snapshots or of upbit_order_book_data;
\* the committed rows only grow.
C27_RowsAppendOnly ==
  [][/\ upbit_orderbook_snapshots \subseteq upbit_orderbook_snapshots'
     /\ upbit_order_book_data \subseteq upbit_order_book_data']_vars

\* C27 witness: a snapshot and its levels are committed, a later store
\* failed and was rolled back, the connection to the feed ended and was made
\* again, and stop() has closed the storage connection.
C27_Witness ==
  /\ upbit_orderbook_snapshots # {}
  /\ upbit_order_book_data # {}
  /\ failed_ids # {}
  /\ last_end # "none"
  /\ pc = "recv"
  /\ _stop
  /\ closer = "done"

\* C28: a committed row of upbit_symbols is never removed or changed, a row
\* is added only for a code that has no committed row, and a store whose
\* code has a committed row resolves to that row's symbol_id without an
\* INSERT into upbit_symbols.
C28_InstrumentStable ==
  [][/\ upbit_symbols \subseteq upbit_symbols'
     /\ \A r \in upbit_symbols' \ upbit_symbols :
          \A q \in upbit_symbols : q.symbol_code # r.symbol_code
     /\ \A r \in upbit_symbols :
          (/\ pc = "select_symbol"
           /\ cur.m.code = r.symbol_code
           /\ pc' \notin {"select_symbol", "failed"})
            => (/\ pc' = "insert_snapshot"
                /\ cur'.symbol_id = r.symbol_id
                /\ symbol_seq' = symbol_seq
                /\ tx' = tx)]_vars

\* C28 witness: the first store of a code without a row created its row, a
\* later store of the code resolved to it: both snapshots carry its id and
\* the code has the one row.
C28_Witness ==
  \E r \in upbit_symbols :
    /\ r.symbol_code # DefaultCode
    /\ Cardinality(SnapshotsOf(r.symbol_id)) = 2
    /\ Cardinality(upbit_symbols) = 2

\* C30: the handling of a decoded update that the gate does not admit calls
\* no store and writes no row, in a transaction or committed, and leaves
\* self._last_store as it was.
C30_RejectionNoOp ==
  [][(Decoded /\ ~Admit(cur.m.code, cur.now)) =>
       /\ pc' \notin StorePcs
       /\ attempts' = attempts
       /\ dbvars' = dbvars /\ tx' = tx /\ seqvars' = seqvars
       /\ _last_store' = _last_store]_vars

\* C30 witness: under a throttle an update was stored and stamped, and the
\* next update, of the same code, has just been rejected.
C30_Witness ==
  /\ pc = "recv"
  /\ verdict = "rejected"
  /\ store_interval > 0
  /\ nmsgs = 2
  /\ Cardinality(upbit_orderbook_snapshots) = 1
  /\ \E c \in Codes :
       /\ _last_store[c] # NoEntry
       /\ \A d \in Codes \ {c} : admittedAt[d] = NoEntry /\ _last_store[d] = NoEntry
       /\ clock - _last_store[c] < store_interval

\* _handle_message is about to call _maybe_print_spread for the update in
\* hand: the option is on and the update was rejected by the gate or its
\* store has returned
SpreadPath ==
  /\ print_spread
  /\ \/ Decoded /\ ~Admit(cur.m.code, cur.now)
     \/ pc = "stored"
\* the spread of the update in hand is printed in this step
Printed == _last_print' # _last_print
\* at the time _maybe_print_spread reads, a second or more has passed since
\* the last print of the update's code
PrintDue == clock' - Get(_last_print, cur.m.code) >= PrintInterval

\* C31 as stated: the spread of an update is printed iff a second or more
\* has passed since the last print of its code; self._last_print changes
\* only in a print, and the spread path leaves self._last_store alone.
C31_PrintedIffTimerElapsed ==
  [][/\ (SpreadPath /\ pc' # pc) => (Printed <=> PrintDue)
     /\ Printed => (SpreadPath /\ pc' # pc)
     /\ (Decoded /\ ~Admit(cur.m.code, cur.now)) => _last_store' = _last_store]_vars

\* C31 amended: the spread of an update that reaches _maybe_print_spread is
\* printed iff a second or more has passed since the last print of its
\* code (since time 0 when there was none) and the update has a level; a
\* print stamps the entry of the update's code with the time read, nothing
\* else changes self._last_print, and the spread path leaves
\* self._last_store alone: it is the handler that stamps it, for a stored
\* update, printed or not.
C31_PrintedIffDueAndLevels ==
  [][/\ (SpreadPath /\ pc' # pc) =>
          (Printed <=> (PrintDue /\ Len(cur.m.orderbook_units) > 0))
     /\ Printed => /\ SpreadPath /\ pc' # pc
                   /\ _last_print' = Stamp(_last_print, cur.m.code, clock')
     /\ (Decoded /\ ~Admit(cur.m.code, cur.now)) => _last_store' = _last_store
     /\ (pc = "stored" /\ pc' # pc) =>
          _last_store' = Stamp(_last_store, cur.m.code, cur.now)]_vars

\* C31 witness: under a throttle an update was rejected by the gate and its
\* spread was printed: the code has a last print and no last store.
C31_Witness ==
  /\ print_spread
  /\ store_interval > 0
  /\ pc = "recv"
  /\ verdict = "rejected"
  /\ _last_print[DefaultCode] = clock
  /\ _last_store[DefaultCode] = NoEntry

\* main_async has resolved the list of symbols
Resolved == mpc \in {"validate", "started", "exited"}

\* C32 as stated: the symbols are the codes of --symbols when that list is
\* not empty, otherwise the lines of symbols.txt when there are any,
\* otherwise the codes of upbit_symbols.
C32_PrecedenceByList ==
  Resolved =>
    symbols = IF ParseSymbols(args_symbols.pieces) # << >> THEN ParseSymbols(args_symbols.pieces)
              ELSE IF file_symbols # << >> THEN file_symbols
              ELSE DbSymbols

\* C32 amended: the symbols are the codes of --symbols when the option has
\* a value, even one that holds no code; otherwise the lines of symbols.txt
\* when there are any; otherwise the codes of upbit_symbols in the order of
\* the codes, read over a connection made for that case only.
C32_PrecedenceByOption ==
  Resolved =>
    /\ symbols = IF args_symbols.given THEN ParseSymbols(args_symbols.pieces)
                 ELSE IF file_symbols # << >> THEN file_symbols
                 ELSE DbSymbols
    /\ (mpc = "validate") =>
         db_connects = IF ~args_symbols.given /\ file_symbols = << >>
                       THEN 2 ELSE 1

\* C32 witness: --symbols names a code, symbols.txt and upbit_symbols hold
\* other lists, and the streamer was started for the code of --symbols.
C32_Witness ==
  /\ mpc = "started"
  /\ args_symbols.given
  /\ file_symbols # << >>
  /\ DbSymbols # << >>
  /\ symbols = ParseSymbols(args_symbols.pieces)
  /\ symbols # file_symbols
  /\ symbols # DbSymbols

\* the rows of upbit_symbols, committed or inserted by an open transaction
AllSymbolRows == upbit_symbols \cup UNION {tx[c].symbols : c \in Conns}
HasDash(code) == \E i \in 1..Len(code) : code[i] = "-"

\* C33: the row of a code with a "-" has the quote and the base that, joined
\* by a "-", give the code back, the quote holding no "-": the code is split
\* at its first "-"; the row of a code without "-" has the code as its base
\* and "KRW" as its quote.
C33_BaseQuoteSplit ==
  \A r \in AllSymbolRows :
    IF HasDash(r.symbol_code)
    THEN /\ r.quote_currency \o <<"-">> \o r.base_currency = r.symbol_code
         /\ ~HasDash(r.quote_currency)
    ELSE /\ r.base_currency = r.symbol_code
         /\ r.quote_currency = <<"K", "R", "W">>

\* C33 witness: get_or_create_symbol_id has committed the row of a code
\* with a second "-" after its first, which stays in the base.
C33_Witness ==
  \E r \in upbit_symbols :
    /\ r.symbol_code = <<"U", "-", "B", "-">>
    /\ r.quote_currency = <<"U">>
    /\ r.base_currency = <<"B", "-">>
    /\ rpc[1] = "returned"

\* C34: a step changes the entry of self._last_store or of self._last_print
\* of a code only while an update of that code is in hand; the entries of
\* every other code stay, and with them the store condition of the other
\* codes, which reads the entry of the update's own code alone.
C34_ThrottlePerCode ==
  [][\A c \in Codes :
       (_last_store'[c] # _last_store[c] \/ _last_print'[c] # _last_print[c])
         => (pc \in {"handle", "stored"} /\ ~Dropped(cur.m) /\ cur.m.code = c)]_vars

\* C34 witness: with the spread print on and a throttle, updates of two
\* codes were stored and printed at different times, each code has its own
\* entries.
C34_Witness ==
  /\ print_spread
  /\ store_interval > 0
  /\ pc = "recv"
  /\ \A c \in Codes : _last_store[c] # NoEntry /\ _last_print[c] # NoEntry
  /\ \E c, d \in Codes : /\ _last_store[c] < _last_store[d]
                         /\ _last_print[c] < _last_print[d]

\* the step in which _consumer_loop sends its subscription
SubscriptionSent == pc = "subscribing" /\ pc' = "recv"

\* C35: once the event of stop() is set, start() begins no connection
\* attempt and _consumer_loop sends no subscription.
C35_NoConnectNoSubscribeAfterStop ==
  [][_stop => (~ConnectionAttempt /\ ~SubscriptionSent)]_vars

\* C36: once stop() has closed self.conn no row is committed; the next
\* statement of a store raises, the store ends in its except branch, the
\* exception is caught by _handle_message with the websocket still open,
\* and _consumer_loop leaves its loop and closes the websocket.
C36_NoCommitAfterClose ==
  [][conn = "closed" =>
       /\ dbvars' = dbvars
       /\ (pc \in StorePcs \cup {"insert_levels"} /\ pc' # pc) => pc' = "failed"
       /\ (pc = "failed" /\ pc' # pc) => pc' = "raised"
       /\ (pc = "raised" /\ pc' # pc) => (pc' = "closing" /\ ws' = "open")
       /\ (pc = "closing" /\ pc' # pc) => (pc' = "start" /\ ws' = "closed")]_vars

\* C36 witness: after stop() has closed self.conn an update was admitted,
\* a statement of its store raised on the closed connection, the store has
\* raised into _handle_message and nothing is stored.
C36_Witness ==
  /\ conn = "closed"
  /\ pc = "raised"
  /\ cur.admitted_on = "closed"
  /\ cur.failed_on = "closed"
  /\ ws = "open"
  /\ nmsgs = 1
  /\ attempts[1] = 1
  /\ upbit_orderbook_snapshots = {}

\* C37: from the call of the store of an admitted update to the end of the
\* except branch of _handle_message, when the store has raised, no step
\* prints a spread: self._last_print stays as it was, and the handler ends
\* without a write of self._last_store.
C37_FailedStoreSkipsPrint ==
  [][/\ (InStore \/ pc = "raised") => _last_print' = _last_print
     /\ (pc = "raised" /\ pc' # pc) =>
          (pc' = AfterMessage /\ mapvars' = mapvars /\ clock' = clock)]_vars

\* C37 witness: with the spread print on, the store of the first update of
\* a code, an update with a level that arrived when a print was due, has
\* raised, and the handler has ended: the code has no last print.
C37_Witness ==
  /\ print_spread
  /\ pc = "recv"
  /\ verdict = "failed"
  /\ nmsgs = 1
  /\ admittedAt[<<"B">>] >= PrintInterval
  /\ _last_print[<<"B">>] = NoEntry

\* C38: the store interval of the streamer is never negative; it is 0 when
\* --store-interval is negative, and then every decoded orderbook update is
\* handed to the store, as with --store-interval 0.
C38_NegativeIntervalIsPassThrough ==
  /\ [](store_interval >= 0)
  /\ [](args_store_interval < 0 => store_interval = 0)
  /\ [](args_store_interval >= 0 => store_interval = args_store_interval)
  /\ [][(args_store_interval < 0 /\ Decoded) => Admitted]_vars

\* C38 witness: with a negative --store-interval two updates of one code
\* that arrived at the same time are both stored.
C38_Witness ==
  /\ args_store_interval < 0
  /\ \E s1, s2 \in upbit_orderbook_snapshots :
       /\ s1.snapshot_id # s2.snapshot_id
       /\ s1.symbol_id = s2.symbol_id
       /\ arrival[s1.snapshot_id] = arrival[s2.snapshot_id]
====
